---- MODULE Spec2Model ----
(***************************************************************************)
(* Huffman codec of compressor/compression_methods/huffman.py.             *)
(*                                                                         *)
(* A character is its Unicode code point, a str is a sequence of code      *)
(* points, bytes is a sequence of integers in 0..255 and a bitarray is a   *)
(* sequence of bits (big-endian inside a byte, bitarray's default).        *)
(* Python's None is the record None; a HuffmanTreeNode is a record with    *)
(* the fields the constructor sets.                                        *)
(***************************************************************************)
EXTENDS Integers, Sequences, FiniteSets, TLC

VARIABLES
    pc,                \* which operation ran last
    text_in,           \* the text given to compress or to _encode_text
    bin,               \* the binary stream: bin_out of compress, bin_in of decompress
    pos,               \* read cursor of bin
    text_out,          \* what was written to the text output
    err,               \* the exception raised, "none" when none was
    freq_list,         \* list of (freq, char) given to _build_huffman_tree
    huffman_tree,      \* the tree built (or given to _encode_tree)
    codes,             \* dict returned by _get_codes
    encoded_text,      \* bitarray returned by _encode_text
    trailing,          \* bits appended to encoded_text before _decode_text
    encoded_text_bits, \* bitarray decompress hands to _decode
    tree_str,          \* str given to _decode_tree
    decoded_tree,      \* the tree _decode_tree returned
    remaining,         \* _remaining of _decode_tree
    hdr                \* the tuple _read_headers returned, None when it raised

vars == <<pc, text_in, bin, pos, text_out, err, freq_list, huffman_tree, codes,
          encoded_text, trailing, encoded_text_bits, tree_str, decoded_tree,
          remaining, hdr>>

-----------------------------------------------------------------------------
(* Bounds of the model. *)

\* longest text handed to compress
MaxLen == 4
\* largest frequency of one character in a frequency list given to the tree builder
MaxFreq == 3
\* longest text encoded against a given code table
MaxMsg == 2
\* depth of the arbitrary trees given to the tree serializer
MaxDepth == 2
\* most bytes after the 16-byte header in a binary input given to decompress
MaxBody == 5

\* 'a', '0', '1' (the structural tags) and U+00E9 (two bytes in UTF-8)
Alphabet == {97, 48, 49, 233}
\* leaf labels of the arbitrary trees
TreeAlphabet == {48, 49, 233}
\* byte values of the arbitrary binary inputs: b"0", b"1", b"a"
BodyBytes == {48, 49, 97}

-----------------------------------------------------------------------------
(* Python values. *)

None == [kind |-> "none"]

HuffmanTreeNode(char, freq, left, right) ==
    [kind |-> "node", char |-> char, freq |-> freq, left |-> left,
     right |-> right, code |-> <<>>]

Min(a, b) == IF a < b THEN a ELSE b

\* s[i:] of a Python sequence (0-based, clamped)
From(s, i) == SubSeq(s, Min(i, Len(s)) + 1, Len(s))

\* s[:i] for i >= 0 (clamped)
UpTo(s, i) == SubSeq(s, 1, Min(i, Len(s)))

\* all sequences over S of length at most n
SeqsUpTo(S, n) == UNION {[1..k -> S] : k \in 0..n}

-----------------------------------------------------------------------------
(* heapq on a list of HuffmanTreeNode, ordered by __lt__ (freq only). *)

Lt(a, b) == a.freq < b.freq

\* heap[i] with Python's 0-based index
At(heap, i) == heap[i + 1]

Put(heap, i, x) == [heap EXCEPT ![i + 1] = x]

RECURSIVE SiftDownLoop(_, _, _, _)
SiftDownLoop(heap, startpos, p, newitem) ==
    IF p > startpos
    THEN LET parentpos == (p - 1) \div 2
             parent == At(heap, parentpos)
         IN IF Lt(newitem, parent)
            THEN SiftDownLoop(Put(heap, p, parent), startpos, parentpos, newitem)
            ELSE Put(heap, p, newitem)
    ELSE Put(heap, p, newitem)

siftdown(heap, startpos, p) == SiftDownLoop(heap, startpos, p, At(heap, p))

heappush(heap, item) ==
    LET h == Append(heap, item) IN siftdown(h, 0, Len(h) - 1)

RECURSIVE SiftUpLoop(_, _, _, _)
SiftUpLoop(heap, startpos, p, newitem) ==
    LET endpos == Len(heap)
        childpos == 2 * p + 1
        rightpos == childpos + 1
        c == IF rightpos < endpos /\ ~Lt(At(heap, childpos), At(heap, rightpos))
             THEN rightpos ELSE childpos
    IN IF childpos < endpos
       THEN SiftUpLoop(Put(heap, p, At(heap, c)), startpos, c, newitem)
       ELSE siftdown(Put(heap, p, newitem), startpos, p)

siftup(heap, p) == SiftUpLoop(heap, p, p, At(heap, p))

\* heappop: the item returned and the heap left
heappop(heap) ==
    LET lastelt == heap[Len(heap)]
        rest == SubSeq(heap, 1, Len(heap) - 1)
    IN IF rest # <<>>
       THEN [item |-> rest[1], heap |-> siftup(Put(rest, 0, lastelt), 0)]
       ELSE [item |-> lastelt, heap |-> rest]

-----------------------------------------------------------------------------
(* Huffman._count_frequencies *)

Count(text, c) == Cardinality({i \in 1..Len(text) : text[i] = c})

\* tuple order of (freq, char) pairs, char a one-character str
PairLt(p, q) == p[1] < q[1] \/ (p[1] = q[1] /\ p[2][1] < q[2][1])

RECURSIVE SortReverse(_)
SortReverse(S) ==
    IF S = {} THEN <<>>
    ELSE LET m == CHOOSE p \in S : \A q \in S \ {p} : PairLt(q, p)
         IN <<m>> \o SortReverse(S \ {m})

count_frequencies(text) ==
    SortReverse({<<Count(text, c), <<c>>>> : c \in {text[i] : i \in 1..Len(text)}})

-----------------------------------------------------------------------------
(* Huffman._build_huffman_tree *)

RECURSIVE PushAll(_, _)
PushAll(nodes, fl) ==
    IF fl = <<>> THEN nodes
    ELSE PushAll(heappush(nodes, HuffmanTreeNode(Head(fl)[2], Head(fl)[1], None, None)),
                 Tail(fl))

RECURSIVE MergeLoop(_)
MergeLoop(nodes) ==
    IF Len(nodes) > 1
    THEN LET p1 == heappop(nodes)
             p2 == heappop(p1.heap)
             left == p1.item
             right == p2.item
         IN MergeLoop(heappush(p2.heap,
                HuffmanTreeNode(left.char \o right.char, left.freq + right.freq,
                                left, right)))
    ELSE heappop(nodes).item

build_huffman_tree(fl) ==
    IF Len(fl) = 0 THEN None ELSE MergeLoop(PushAll(<<>>, fl))

-----------------------------------------------------------------------------
(* HuffmanTreeNode.code_tree and Huffman._get_codes *)

IsNode(n) == n # None

RECURSIVE code_tree(_, _)
code_tree(node, code) ==
    IF IsNode(node.left) /\ IsNode(node.right)
    THEN [node EXCEPT !.code = code,
                      !.left = code_tree(node.left, code \o <<1>>),
                      !.right = code_tree(node.right, code \o <<0>>)]
    ELSE [node EXCEPT !.code = code]

\* traverse with the same bit appended on both sides
RECURSIVE traverse_same_bit(_, _)
traverse_same_bit(node, code) ==
    IF IsNode(node.left) /\ IsNode(node.right)
    THEN traverse_same_bit(node.left, code \o <<0>>)
             \o traverse_same_bit(node.right, code \o <<0>>)
    ELSE <<[char |-> node.char, code |-> code]>>

\* the assignments codes[node.char] = code, in the order traverse makes them
RECURSIVE traverse(_, _)
traverse(node, code) ==
    IF IsNode(node.left) /\ IsNode(node.right)
    THEN traverse(node.left, code \o <<0>>) \o traverse(node.right, code \o <<1>>)
    ELSE <<[char |-> node.char, code |-> code]>>

\* the dict a sequence of assignments leaves: the last assignment to a key wins
DictOf(assigns) ==
    [c \in {assigns[i].char : i \in 1..Len(assigns)} |->
        LET last == CHOOSE i \in 1..Len(assigns) :
                        /\ assigns[i].char = c
                        /\ \A j \in (i + 1)..Len(assigns) : assigns[j].char # c
        IN assigns[last].code]

get_codes(tree) == DictOf(traverse(tree, <<>>))

-----------------------------------------------------------------------------
(* Huffman._encode_text: the bits, or the KeyError of huffman_codes[c] *)

RECURSIVE EncodeLoop(_, _, _)
EncodeLoop(text, huffman_codes, result) ==
    IF text = <<>> THEN [err |-> "none", bits |-> result]
    ELSE LET c == <<Head(text)>>
         IN IF c \notin DOMAIN huffman_codes
            THEN [err |-> "KeyError", bits |-> <<>>]
            ELSE EncodeLoop(Tail(text), huffman_codes, result \o huffman_codes[c])

encode_text(text, huffman_codes) == EncodeLoop(text, huffman_codes, <<>>)

-----------------------------------------------------------------------------
(* str.encode("utf-8") and bytes.decode("utf-8") *)

Utf8Char(cp) ==
    IF cp < 128 THEN <<cp>>
    ELSE IF cp < 2048 THEN <<192 + (cp \div 64), 128 + (cp % 64)>>
    ELSE IF cp < 65536
         THEN <<224 + (cp \div 4096), 128 + ((cp \div 64) % 64), 128 + (cp % 64)>>
    ELSE <<240 + (cp \div 262144), 128 + ((cp \div 4096) % 64),
           128 + ((cp \div 64) % 64), 128 + (cp % 64)>>

RECURSIVE Utf8Encode(_)
Utf8Encode(str) ==
    IF str = <<>> THEN <<>> ELSE Utf8Char(Head(str)) \o Utf8Encode(Tail(str))

IsCont(b) == b >= 128 /\ b < 192

\* number of bytes the lead byte announces, 0 for a byte that cannot lead
LeadLen(b) ==
    IF b < 128 THEN 1
    ELSE IF b >= 194 /\ b < 224 THEN 2
    ELSE IF b >= 224 /\ b < 240 THEN 3
    ELSE IF b >= 240 /\ b < 245 THEN 4
    ELSE 0

RECURSIVE ContValue(_, _)
ContValue(bs, acc) ==
    IF bs = <<>> THEN acc ELSE ContValue(Tail(bs), (acc * 64) + (Head(bs) - 128))

LeadValue(b, n) ==
    IF n = 1 THEN b ELSE IF n = 2 THEN b - 192 ELSE IF n = 3 THEN b - 224 ELSE b - 240

MinCodePoint(n) == IF n = 1 THEN 0 ELSE IF n = 2 THEN 128 ELSE IF n = 3 THEN 2048 ELSE 65536

\* the str, or the UnicodeDecodeError
RECURSIVE Utf8Decode(_)
Utf8Decode(bs) ==
    IF bs = <<>> THEN [err |-> "none", str |-> <<>>]
    ELSE LET n == LeadLen(Head(bs))
             tail == SubSeq(bs, 2, Min(n, Len(bs)))
             cp == ContValue(tail, LeadValue(Head(bs), n))
             bad == \/ n = 0
                    \/ Len(bs) < n
                    \/ \E i \in 1..Len(tail) : ~IsCont(tail[i])
                    \/ cp < MinCodePoint(n)
                    \/ cp > 1114111
                    \/ (cp >= 55296 /\ cp < 57344)
         IN IF bad THEN [err |-> "UnicodeDecodeError", str |-> <<>>]
            ELSE LET r == Utf8Decode(From(bs, n))
                 IN IF r.err # "none" THEN r
                    ELSE [err |-> "none", str |-> <<cp>> \o r.str]

-----------------------------------------------------------------------------
(* Huffman._encode_tree: the bytes, or the ValueError of a single-child node *)

TagInternal == 48
TagLeaf == 49

\* encode_tree writing the right child before the left one
RECURSIVE encode_tree_swapped(_)
encode_tree_swapped(node) ==
    IF \/ (node.left = None /\ IsNode(node.right))
       \/ (IsNode(node.left) /\ node.right = None)
    THEN [err |-> "ValueError", bytes |-> <<>>]
    ELSE IF node.left = None \/ node.right = None
    THEN [err |-> "none", bytes |-> <<TagLeaf>> \o Utf8Encode(node.char)]
    ELSE LET l == encode_tree_swapped(node.left)
             r == encode_tree_swapped(node.right)
         IN IF l.err # "none" THEN l
            ELSE IF r.err # "none" THEN r
            ELSE [err |-> "none", bytes |-> <<TagInternal>> \o r.bytes \o l.bytes]

RECURSIVE encode_tree(_)
encode_tree(node) ==
    IF \/ (node.left = None /\ IsNode(node.right))
       \/ (IsNode(node.left) /\ node.right = None)
    THEN [err |-> "ValueError", bytes |-> <<>>]
    ELSE IF node.left = None \/ node.right = None
    THEN [err |-> "none", bytes |-> <<TagLeaf>> \o Utf8Encode(node.char)]
    ELSE LET l == encode_tree(node.left)
             r == encode_tree(node.right)
         IN IF l.err # "none" THEN l
            ELSE IF r.err # "none" THEN r
            ELSE [err |-> "none", bytes |-> <<TagInternal>> \o l.bytes \o r.bytes]

-----------------------------------------------------------------------------
(* Huffman._decode_tree: the node and the unconsumed remainder, or the      *)
(* IndexError of tree_str[1] on a one-character string                     *)

RECURSIVE decode_tree(_)
decode_tree(str) ==
    IF str = <<>> THEN [err |-> "none", node |-> None, rest |-> str]
    ELSE IF str[1] = TagLeaf
    THEN IF Len(str) < 2
         THEN [err |-> "IndexError", node |-> None, rest |-> <<>>]
         ELSE [err |-> "none",
               node |-> HuffmanTreeNode(<<str[2]>>, 0, None, None),
               rest |-> From(str, 2)]
    ELSE LET l == decode_tree(From(str, 1))
         IN IF l.err # "none" THEN l
            ELSE LET r == decode_tree(l.rest)
                 IN IF r.err # "none" THEN r
                    ELSE [err |-> "none",
                          node |-> HuffmanTreeNode(<<>>, 0, l.node, r.node),
                          rest |-> r.rest]

-----------------------------------------------------------------------------
(* Huffman._decode_text *)

\* the decoding walk with bit 0 going right and bit 1 going left
RECURSIVE DecodeLoopSwapped(_, _, _, _)
DecodeLoopSwapped(bits, tree, current_node, result) ==
    IF bits = <<>> THEN result
    ELSE LET nxt == IF Head(bits) = 0 THEN current_node.right ELSE current_node.left
         IN IF nxt = None THEN result
            ELSE IF nxt.left = None /\ nxt.right = None
            THEN DecodeLoopSwapped(Tail(bits), tree, tree, result \o nxt.char)
            ELSE DecodeLoopSwapped(Tail(bits), tree, nxt, result)

RECURSIVE DecodeLoop(_, _, _, _)
DecodeLoop(bits, tree, current_node, result) ==
    IF bits = <<>> THEN result
    ELSE LET nxt == IF Head(bits) = 0 THEN current_node.left ELSE current_node.right
         IN IF nxt = None THEN result
            ELSE IF nxt.left = None /\ nxt.right = None
            THEN DecodeLoop(Tail(bits), tree, tree, result \o nxt.char)
            ELSE DecodeLoop(Tail(bits), tree, nxt, result)

decode_text(bits, tree) == DecodeLoop(bits, tree, tree, <<>>)

(* Huffman._decode *)
decode(str, bits) ==
    LET t == decode_tree(str)
    IN IF t.err # "none"
       THEN [err |-> t.err, text |-> <<>>, tree |-> None, rest |-> <<>>]
       ELSE IF t.node = None
       THEN [err |-> "ValueError", text |-> <<>>, tree |-> None, rest |-> t.rest]
       ELSE [err |-> "none", text |-> decode_text(bits, t.node), tree |-> t.node,
             rest |-> t.rest]

-----------------------------------------------------------------------------
(* bitarray and int.to_bytes / int.from_bytes *)

padbits(bits) == (8 - (Len(bits) % 8)) % 8

RECURSIVE BitsValue(_, _)
BitsValue(bits, acc) ==
    IF bits = <<>> THEN acc ELSE BitsValue(Tail(bits), (2 * acc) + Head(bits))

RECURSIVE PackBytes(_)
PackBytes(bits) ==
    IF bits = <<>> THEN <<>>
    ELSE <<BitsValue(SubSeq(bits, 1, 8), 0)>> \o PackBytes(From(bits, 8))

tobytes(bits) == PackBytes(bits \o [i \in 1..padbits(bits) |-> 0])

ByteBits(b) == [i \in 1..8 |-> (b \div (2 ^ (8 - i))) % 2]

RECURSIVE frombytes(_)
frombytes(bytes) ==
    IF bytes = <<>> THEN <<>> ELSE ByteBits(Head(bytes)) \o frombytes(Tail(bytes))

\* bits[:-n] for n > 0
DropLast(bits, n) == SubSeq(bits, 1, Len(bits) - n)

RECURSIVE to_bytes(_, _)
to_bytes(n, length) ==
    IF length = 0 THEN <<>> ELSE to_bytes(n \div 256, length - 1) \o <<n % 256>>

RECURSIVE FromBytesLoop(_, _)
FromBytesLoop(bytes, acc) ==
    IF bytes = <<>> THEN acc ELSE FromBytesLoop(Tail(bytes), (256 * acc) + Head(bytes))

from_bytes(bytes) == FromBytesLoop(bytes, 0)

-----------------------------------------------------------------------------------------------------------------------------------------------------
(* Huffman._read_headers on the stream bin_in, read from position 0 *)

HeaderLen == 16
FieldLen == 8

\* bin_in.read(n) at position p: the bytes read
Read(stream, p, n) == SubSeq(stream, Min(p, Len(stream)) + 1, Min(p + n, Len(stream)))

\* bin_in.read() at position p
ReadAll(stream, p) == From(stream, p)

\* _read_headers without the seek back to the start of the tree
read_headers_noseek(stream) ==
    LET header == Read(stream, 0, HeaderLen)
        padding_len == from_bytes(UpTo(header, FieldLen))
        tree_len == from_bytes(From(header, FieldLen))
        after == Len(header)
        early == padding_len < 0 \/ tree_len < 0 \/ padding_len >= 8
    IN IF early \/ tree_len > Len(ReadAll(stream, after))
       THEN [err |-> "CompressionMethodError", padding_len |-> padding_len,
             tree_len |-> tree_len, pos |-> IF early THEN after ELSE Len(stream)]
       ELSE [err |-> "none", padding_len |-> padding_len, tree_len |-> tree_len,
             pos |-> Len(stream)]

read_headers(stream) ==
    LET header == Read(stream, 0, HeaderLen)
        padding_len == from_bytes(UpTo(header, FieldLen))
        tree_len == from_bytes(From(header, FieldLen))
        after == Len(header)
        early == padding_len < 0 \/ tree_len < 0 \/ padding_len >= 8
    IN IF early \/ tree_len > Len(ReadAll(stream, after))
       THEN [err |-> "CompressionMethodError", padding_len |-> padding_len,
             tree_len |-> tree_len, pos |-> IF early THEN after ELSE Len(stream)]
       ELSE [err |-> "none", padding_len |-> padding_len, tree_len |-> tree_len,
             pos |-> HeaderLen]

-----------------------------------------------------------------------------
(* Huffman.compress: what it writes to bin_out, and its locals *)

\* the header with its two fields in the wrong order
HeaderSwapped(bits, encoded_tree) ==
    to_bytes(Len(encoded_tree), FieldLen) \o to_bytes(padbits(bits), FieldLen)

Header(bits, encoded_tree) ==
    to_bytes(padbits(bits), FieldLen) \o to_bytes(Len(encoded_tree), FieldLen)

compress(text) ==
    LET fl == count_frequencies(text)
        built == build_huffman_tree(fl)
    IN IF built = None
       THEN [out |-> <<>>, freq_list |-> fl, tree |-> None, codes |-> <<>>,
             encoded_text |-> <<>>, err |-> "none"]
       ELSE LET cs == get_codes(built)
                tree == code_tree(built, <<>>)
                enc == encode_text(text, cs)
                et == encode_tree(tree)
            IN IF enc.err # "none" \/ et.err # "none"
               THEN [out |-> <<>>, freq_list |-> fl, tree |-> tree, codes |-> cs,
                     encoded_text |-> <<>>,
                     err |-> IF enc.err # "none" THEN enc.err ELSE et.err]
               ELSE [out |-> Header(enc.bits, et.bytes) \o et.bytes \o tobytes(enc.bits),
                     freq_list |-> fl, tree |-> tree, codes |-> cs,
                     encoded_text |-> enc.bits, err |-> "none"]

(* Huffman.decompress: what it writes to text_out, the error it raises,     *)
(* where it leaves the read cursor, and its locals                         *)

decompress(stream) ==
    LET h == read_headers(stream)
        tree_bytes == Read(stream, h.pos, h.tree_len)
        p1 == h.pos + Len(tree_bytes)
        ts == Utf8Decode(tree_bytes)
        encoded_text_bytes == ReadAll(stream, p1)
        p2 == p1 + Len(encoded_text_bytes)
        all_bits == frombytes(encoded_text_bytes)
        bits == IF h.padding_len > 0 THEN DropLast(all_bits, h.padding_len) ELSE all_bits
        d == decode(ts.str, bits)
        stop == [out |-> <<>>, tree_str |-> <<>>, tree |-> None, bits |-> <<>>,
                 rest |-> <<>>]
    IN IF h.err # "none" THEN stop @@ [err |-> h.err, pos |-> h.pos]
       ELSE IF ts.err # "none" THEN stop @@ [err |-> ts.err, pos |-> p1]
       ELSE [out |-> d.text, tree_str |-> ts.str, tree |-> d.tree, bits |-> bits,
             rest |-> d.rest, err |-> d.err, pos |-> p2]

-----------------------------------------------------------------------------
(* Inputs *)

Texts == SeqsUpTo(Alphabet, MaxLen)

\* frequency lists as _count_frequencies returns them: distinct characters,
\* positive counts, sorted in reverse
FreqLists ==
    UNION {{SortReverse({<<f[c], <<c>>>> : c \in S}) : f \in [S -> 1..MaxFreq]} :
              S \in SUBSET Alphabet}

Leaf(c) == HuffmanTreeNode(<<c>>, 1, None, None)

Internal(l, r) == HuffmanTreeNode(l.char \o r.char, l.freq + r.freq, l, r)

\* the trees of depth at most d in which every node has zero or two children
RECURSIVE Trees(_)
Trees(d) ==
    IF d = 0 THEN {Leaf(c) : c \in TreeAlphabet}
    ELSE LET sub == Trees(d - 1) IN sub \cup {Internal(l, r) : l \in sub, r \in sub}

\* trees with a node that has a single child
BrokenTrees ==
    LET leaves == Trees(0)
        OneChild == {HuffmanTreeNode(l.char, l.freq, l, None) : l \in leaves}
                        \cup {HuffmanTreeNode(l.char, l.freq, None, l) : l \in leaves}
    IN OneChild \cup {Internal(l, b) : l \in leaves, b \in OneChild}

PadVals == {0, 3, 7, 8, 259}
TreeLenVals == 0..(MaxBody + 1)

\* binary inputs with a complete header, and their truncations inside the header
FullInputs ==
    {to_bytes(p, FieldLen) \o to_bytes(t, FieldLen) \o body :
        p \in PadVals, t \in TreeLenVals, body \in SeqsUpTo(BodyBytes, MaxBody)}

ShortInputs ==
    {SubSeq(to_bytes(p, FieldLen) \o to_bytes(t, FieldLen), 1, n) :
        p \in PadVals, t \in {0, 1}, n \in 0..(HeaderLen - 1)}
    \cup {SubSeq(to_bytes(p, FieldLen), FieldLen - n + 1, FieldLen) :
        p \in PadVals, n \in 1..2}

-----------------------------------------------------------------------------
(* Specification Spec: compress a text, then decompress what compress wrote *)

Init ==
    /\ pc = "start"
    /\ text_in \in Texts
    /\ bin = <<>>
    /\ pos = 0
    /\ text_out = <<>>
    /\ err = "none"
    /\ freq_list = <<>>
    /\ huffman_tree = None
    /\ codes = <<>>
    /\ encoded_text = <<>>
    /\ trailing = <<>>
    /\ encoded_text_bits = <<>>
    /\ tree_str = <<>>
    /\ decoded_tree = None
    /\ remaining = <<>>
    /\ hdr = None

Compress ==
    /\ pc = "start"
    /\ LET r == compress(text_in)
       IN /\ bin' = bin \o r.out
          /\ freq_list' = r.freq_list
          /\ huffman_tree' = r.tree
          /\ codes' = r.codes
          /\ encoded_text' = r.encoded_text
          /\ err' = r.err
    /\ pc' = "compressed"
    /\ UNCHANGED <<text_in, pos, text_out, trailing, encoded_text_bits, tree_str,
                   decoded_tree, remaining, hdr>>

Decompress ==
    /\ pc \in {"compressed", "bin"}
    /\ err = "none"
    /\ LET r == decompress(bin)
       IN /\ text_out' = text_out \o r.out
          /\ err' = r.err
          /\ pos' = r.pos
          /\ tree_str' = r.tree_str
          /\ decoded_tree' = r.tree
          /\ remaining' = r.rest
          /\ encoded_text_bits' = r.bits
    /\ pc' = "decompressed"
    /\ UNCHANGED <<text_in, bin, freq_list, huffman_tree, codes, encoded_text,
                   trailing, hdr>>

Next == Compress \/ Decompress

Spec == Init /\ [][Next]_vars

-----------------------------------------------------------------------------
(* Specification SpecCodes: _build_huffman_tree, _get_codes, _encode_text    *)
(* and _decode_text on a frequency list                                    *)

InitCodes ==
    /\ pc = "freq"
    /\ freq_list \in FreqLists
    /\ text_in = <<>>
    /\ bin = <<>>
    /\ pos = 0
    /\ text_out = <<>>
    /\ err = "none"
    /\ huffman_tree = None
    /\ codes = <<>>
    /\ encoded_text = <<>>
    /\ trailing = <<>>
    /\ encoded_text_bits = <<>>
    /\ tree_str = <<>>
    /\ decoded_tree = None
    /\ remaining = <<>>
    /\ hdr = None

BuildTree ==
    /\ pc = "freq"
    /\ huffman_tree' = build_huffman_tree(freq_list)
    /\ pc' = "built"
    /\ UNCHANGED <<text_in, bin, pos, text_out, err, freq_list, codes, encoded_text,
                   trailing, encoded_text_bits, tree_str, decoded_tree, remaining, hdr>>

GetCodes ==
    /\ pc = "built"
    /\ huffman_tree # None
    /\ codes' = get_codes(huffman_tree)
    /\ huffman_tree' = code_tree(huffman_tree, <<>>)
    /\ pc' = "coded"
    /\ UNCHANGED <<text_in, bin, pos, text_out, err, freq_list, encoded_text,
                   trailing, encoded_text_bits, tree_str, decoded_tree, remaining, hdr>>

EncodeText ==
    /\ pc = "coded"
    /\ \E text \in SeqsUpTo(Alphabet, MaxMsg) :
          LET r == encode_text(text, codes)
          IN /\ text_in' = text
             /\ encoded_text' = r.bits
             /\ err' = r.err
    /\ pc' = "encoded"
    /\ UNCHANGED <<bin, pos, text_out, freq_list, huffman_tree, codes, trailing,
                   encoded_text_bits, tree_str, decoded_tree, remaining, hdr>>

\* the prefixes of the codes, whole codes included
CodePrefixes(cs) == UNION {{UpTo(cs[c], n) : n \in 0..Len(cs[c])} : c \in DOMAIN cs}

DecodeText ==
    /\ pc = "encoded"
    /\ err = "none"
    /\ \E trail \in CodePrefixes(codes) :
          /\ trailing' = trail
          /\ text_out' = text_out \o decode_text(encoded_text \o trail, huffman_tree)
    /\ pc' = "decoded"
    /\ UNCHANGED <<text_in, bin, pos, err, freq_list, huffman_tree, codes,
                   encoded_text, encoded_text_bits, tree_str, decoded_tree,
                   remaining, hdr>>

NextCodes == BuildTree \/ GetCodes \/ EncodeText \/ DecodeText

SpecCodes == InitCodes /\ [][NextCodes]_vars

-----------------------------------------------------------------------------
(* Specification SpecTree: _encode_tree, then _decode_tree on its output *)

InitTree ==
    /\ pc = "tree"
    /\ huffman_tree \in Trees(MaxDepth) \cup BrokenTrees
    /\ text_in = <<>>
    /\ bin = <<>>
    /\ pos = 0
    /\ text_out = <<>>
    /\ err = "none"
    /\ freq_list = <<>>
    /\ codes = <<>>
    /\ encoded_text = <<>>
    /\ trailing = <<>>
    /\ encoded_text_bits = <<>>
    /\ tree_str = <<>>
    /\ decoded_tree = None
    /\ remaining = <<>>
    /\ hdr = None

EncodeTree ==
    /\ pc = "tree"
    /\ LET r == encode_tree(huffman_tree)
       IN /\ bin' = r.bytes
          /\ err' = r.err
    /\ pc' = "tree_encoded"
    /\ UNCHANGED <<text_in, pos, text_out, freq_list, huffman_tree, codes,
                   encoded_text, trailing, encoded_text_bits, tree_str,
                   decoded_tree, remaining, hdr>>

DecodeTree ==
    /\ pc = "tree_encoded"
    /\ err = "none"
    /\ LET s == Utf8Decode(bin)
           d == decode_tree(s.str)
       IN /\ tree_str' = s.str
          /\ decoded_tree' = IF s.err = "none" THEN d.node ELSE None
          /\ remaining' = IF s.err = "none" THEN d.rest ELSE <<>>
          /\ err' = IF s.err = "none" THEN d.err ELSE s.err
    /\ pc' = "tree_decoded"
    /\ UNCHANGED <<text_in, bin, pos, text_out, freq_list, huffman_tree, codes,
                   encoded_text, trailing, encoded_text_bits, hdr>>

NextTree == EncodeTree \/ DecodeTree

SpecTree == InitTree /\ [][NextTree]_vars

-----------------------------------------------------------------------------
(* Specification SpecBin: _read_headers and decompress on a binary input *)

InitBin ==
    /\ pc = "bin"
    /\ bin \in FullInputs \cup ShortInputs
    /\ text_in = <<>>
    /\ pos = 0
    /\ text_out = <<>>
    /\ err = "none"
    /\ freq_list = <<>>
    /\ huffman_tree = None
    /\ codes = <<>>
    /\ encoded_text = <<>>
    /\ trailing = <<>>
    /\ encoded_text_bits = <<>>
    /\ tree_str = <<>>
    /\ decoded_tree = None
    /\ remaining = <<>>
    /\ hdr = None

ReadHeaders ==
    /\ pc = "bin"
    /\ LET h == read_headers(bin)
       IN /\ err' = h.err
          /\ pos' = h.pos
          /\ hdr' = IF h.err = "none" THEN <<h.padding_len, h.tree_len>> ELSE None
    /\ pc' = "header_read"
    /\ UNCHANGED <<text_in, bin, text_out, freq_list, huffman_tree, codes,
                   encoded_text, trailing, encoded_text_bits, tree_str,
                   decoded_tree, remaining>>

NextBin == ReadHeaders \/ Decompress

SpecBin == InitBin /\ [][NextBin]_vars

-----------------------------------------------------------------------------
(* Vocabulary of the properties *)

RECURSIVE NumLeaves(_)
NumLeaves(node) ==
    IF node = None THEN 0
    ELSE IF node.left = None /\ node.right = None THEN 1
    ELSE NumLeaves(node.left) + NumLeaves(node.right)

RECURSIVE LeafChars(_)
LeafChars(node) ==
    IF node = None THEN {}
    ELSE IF node.left = None /\ node.right = None THEN {node.char}
    ELSE LeafChars(node.left) \cup LeafChars(node.right)

\* every node has zero or two children
RECURSIVE Full(_)
Full(node) ==
    /\ node # None
    /\ \/ node.left = None /\ node.right = None
       \/ Full(node.left) /\ Full(node.right)

\* some node has exactly one child
RECURSIVE Partial(_)
Partial(node) ==
    /\ node # None
    /\ \/ (node.left = None) # (node.right = None)
       \/ Partial(node.left)
       \/ Partial(node.right)

\* same structure and same leaf characters
RECURSIVE SameShape(_, _)
SameShape(a, b) ==
    IF a = None \/ b = None THEN a = b
    ELSE IF a.left = None /\ a.right = None
    THEN b.left = None /\ b.right = None /\ a.char = b.char
    ELSE SameShape(a.left, b.left) /\ SameShape(a.right, b.right)

IsPrefix(a, b) == Len(a) <= Len(b) /\ SubSeq(b, 1, Len(a)) = a

ProperPrefixOfACode(b) ==
    \E c \in DOMAIN codes : Len(b) < Len(codes[c]) /\ IsPrefix(b, codes[c])

RECURSIVE SumCodeLen(_, _)
SumCodeLen(text, cs) ==
    IF text = <<>> THEN 0 ELSE Len(cs[<<Head(text)>>]) + SumCodeLen(Tail(text), cs)

\* subtrees a pre-order serialization still owes after the string ends:
\* a leaf tag needs its character, an internal tag needs two subtrees
RECURSIVE Owed(_, _)
Owed(str, need) ==
    IF need = 0 THEN 0
    ELSE IF str = <<>> THEN need
    ELSE IF str[1] = TagLeaf
    THEN IF Len(str) < 2 THEN need ELSE Owed(From(str, 2), need - 1)
    ELSE Owed(From(str, 1), need + 1)

Truncated(str) == Owed(str, 1) > 0

StoredPaddingLen == from_bytes(SubSeq(bin, 1, FieldLen))
StoredTreeLen == from_bytes(SubSeq(bin, FieldLen + 1, HeaderLen))
HeaderInBounds ==
    /\ StoredPaddingLen >= 0
    /\ StoredPaddingLen < 8
    /\ StoredTreeLen <= Len(bin) - HeaderLen

-----------------------------------------------------------------------------
(* Properties *)

\* C1: decompress run on what compress wrote for a text T writes exactly T to
\* the text output and raises nothing, for every T, the empty text and a text
\* of one repeated character included.
C1_RoundTrip ==
    pc = "decompressed" => (err = "none" /\ text_out = text_in)

\* C2: every code of the table _get_codes returns for a tree built by
\* _build_huffman_tree is at least one bit long, a single-leaf tree included.
C2_CodeLengthAtLeastOne ==
    pc \in {"coded", "encoded", "decoded"} =>
        \A c \in DOMAIN codes : Len(codes[c]) >= 1

\* C3: compressing the empty text writes no bytes and raises nothing, and
\* decompressing that empty output writes the empty text and raises nothing.
C3_EmptyText ==
    text_in = <<>> =>
        /\ pc = "compressed" => (bin = <<>> /\ err = "none")
        /\ pc = "decompressed" => (bin = <<>> /\ text_out = <<>> /\ err = "none")

\* C4: on an input with a complete 16-byte header, _read_headers raises
\* CompressionMethodError when padding_len is outside [0, 8) or tree_len exceeds
\* the bytes after the header; otherwise it raises nothing, returns
\* (padding_len, tree_len) and leaves the cursor at 16, and decompress then
\* reads exactly tree_len bytes of tree and all the remaining bytes as payload.
C4_ReadHeaders ==
    Len(bin) >= HeaderLen =>
        /\ pc = "header_read" =>
              IF HeaderInBounds
              THEN /\ err = "none"
                   /\ hdr = <<StoredPaddingLen, StoredTreeLen>>
                   /\ pos = HeaderLen
              ELSE err = "CompressionMethodError" /\ hdr = None
        /\ (pc = "decompressed" /\ ~HeaderInBounds) => err = "CompressionMethodError"
        /\ (pc = "decompressed" /\ HeaderInBounds) =>
              /\ err # "CompressionMethodError"
              /\ Utf8Encode(tree_str) = SubSeq(bin, HeaderLen + 1, HeaderLen + StoredTreeLen)
              /\ IsPrefix(encoded_text_bits,
                          frombytes(SubSeq(bin, HeaderLen + StoredTreeLen + 1, Len(bin))))
              /\ Len(encoded_text_bits) =
                     IF 8 * (Len(bin) - HeaderLen - StoredTreeLen) > StoredPaddingLen
                     THEN 8 * (Len(bin) - HeaderLen - StoredTreeLen) - StoredPaddingLen
                     ELSE 0
              /\ pos = Len(bin)

C4_Witness ==
    /\ pc = "header_read"
    /\ err = "none"
    /\ Len(bin) > HeaderLen + 2
    /\ hdr # None
    /\ hdr[1] = 3
    /\ hdr[2] = 2
    /\ pos = HeaderLen

\* C5: for a non-empty text, 8 * (payload bytes after the serialized tree) minus
\* the padding_len stored in header bytes 0..7 equals the sum of the code
\* lengths of the characters of the text, and that padding_len is in [0, 8).
C5_HeaderBitAccounting ==
    (pc = "compressed" /\ text_in # <<>>) =>
        /\ Len(bin) >= HeaderLen
        /\ StoredTreeLen = Len(encode_tree(huffman_tree).bytes)
        /\ StoredPaddingLen >= 0
        /\ StoredPaddingLen < 8
        /\ 8 * (Len(bin) - HeaderLen - StoredTreeLen) - StoredPaddingLen
               = SumCodeLen(text_in, codes)

C5_Witness ==
    /\ pc = "compressed"
    /\ Cardinality(DOMAIN codes) >= 3
    /\ Len(bin) >= HeaderLen
    /\ StoredPaddingLen > 0
    /\ SumCodeLen(text_in, codes) > 0

\* C6: the code table of a built tree has one entry per leaf, and no code is a
\* prefix of the code of a different leaf.
C6_PrefixFree ==
    pc \in {"coded", "encoded", "decoded"} =>
        /\ DOMAIN codes = LeafChars(huffman_tree)
        /\ Cardinality(DOMAIN codes) = NumLeaves(huffman_tree)
        /\ \A c, d \in DOMAIN codes : c # d => ~IsPrefix(codes[c], codes[d])

C6_Witness ==
    /\ pc = "coded"
    /\ NumLeaves(huffman_tree) = Cardinality(Alphabet)
    /\ \E c, d \in DOMAIN codes : Len(codes[c]) < Len(codes[d])

\* C7: for a tree whose nodes have zero or two children, _decode_tree of the
\* output of _encode_tree has the same shape and the same leaf characters
\* (tags '0' and '1' as leaf characters included) and leaves no remainder.
C7_TreeRoundTrip ==
    /\ (pc = "tree_encoded" /\ Full(huffman_tree)) => err = "none"
    /\ (pc = "tree_decoded" /\ Full(huffman_tree)) =>
          /\ err = "none"
          /\ SameShape(huffman_tree, decoded_tree)
          /\ remaining = <<>>

C7_Witness ==
    /\ pc = "tree_decoded"
    /\ Full(huffman_tree)
    /\ LeafChars(huffman_tree) = {<<c>> : c \in TreeAlphabet}
    /\ NumLeaves(huffman_tree) > 3
    /\ decoded_tree # None

\* C8: a truncated serialized tree (a leaf tag without its character, an
\* internal tag with a child missing) makes decompress fail; it never decodes
\* the payload against a tree with a missing child.
C8_TruncatedTreeRejected ==
    (pc = "decompressed" /\ Truncated(tree_str)) =>
        /\ err # "none"
        /\ ~Partial(decoded_tree)

\* C9: decompress on an input of 1 to 15 bytes fails with
\* CompressionMethodError.
C9_ShortHeaderRejected ==
    (pc = "decompressed" /\ Len(bin) >= 1 /\ Len(bin) < HeaderLen) =>
        err = "CompressionMethodError"

\* C10: with a tree of at least two leaves, _decode_text of the codes of a text
\* T followed by a proper prefix of some code returns exactly T.
C10_DecodeText ==
    (pc = "decoded" /\ NumLeaves(huffman_tree) >= 2 /\ ProperPrefixOfACode(trailing)) =>
        text_out = text_in

C10_Witness ==
    /\ pc = "decoded"
    /\ NumLeaves(huffman_tree) >= 3
    /\ ProperPrefixOfACode(trailing)
    /\ Len(trailing) >= 1
    /\ Len(text_in) >= 2
    /\ text_out = text_in
====
